---- MODULE Spec2Model ----
(***************************************************************************)
(* Bookmark conversion pipeline (main.py): the document tree, the filter,  *)
(* the paragraph splitter, the range replacer, process_document and the    *)
(* batch loop of main(); then the token stage (apply_json_to_docx.py) and  *)
(* the master-document stage (create_main_docx.py), which read the files   *)
(* the earlier stage left on disk.                                         *)
(*                                                                         *)
(* A document is a sequence of nodes; a node's identity is its index.      *)
(* Node 1 is the body (doc.element.body).  0 stands for Python's None      *)
(* wherever a node or an identifier is expected.  Strings are sequences of *)
(* one-character strings so that lower(), startswith() and strip() are     *)
(* computed rather than assumed.                                           *)
(***************************************************************************)
EXTENDS Integers, Sequences, FiniteSets, TLC

\* ----------------------------------------------------------------- bounds
\* Largest number of input files of a batch run (SpecRun).
MaxDocs == 2

\* ------------------------------------------------------------ sequences
Range(s) == {s[i] : i \in 1..Len(s)}

InSeq(x, s) == \E i \in 1..Len(s) : s[i] = x

\* list.index(x): position of the first occurrence, 0 for ValueError.
IndexOf(s, x) ==
    IF InSeq(x, s) THEN CHOOSE i \in 1..Len(s) : s[i] = x /\ \A j \in 1..(i - 1) : s[j] # x
    ELSE 0

\* Mutant of InsertAt: x ends up one position too early.
InsertAt_OneEarly(s, i, x) ==
    IF i <= 1 THEN <<x>> \o s
    ELSE SubSeq(s, 1, i - 2) \o <<x>> \o SubSeq(s, i - 1, Len(s))

\* list.insert(i, x) with a 1-based position i: x ends up at position i.
InsertAt(s, i, x) ==
    IF i > Len(s) THEN Append(s, x)
    ELSE SubSeq(s, 1, i - 1) \o <<x>> \o SubSeq(s, i, Len(s))

RECURSIVE Flat(_)
\* Concatenation of a sequence of sequences.
Flat(ss) == IF ss = <<>> THEN <<>> ELSE Head(ss) \o Flat(Tail(ss))

\* --------------------------------------------------------------- strings
UpperCs == <<"A", "B", "C", "D", "E", "H", "K", "N", "T", "U", "X">>
LowerCs == <<"a", "b", "c", "d", "e", "h", "k", "n", "t", "u", "x">>

\* str.lower() on one character.
LowerChar(c) == IF InSeq(c, UpperCs) THEN LowerCs[IndexOf(UpperCs, c)] ELSE c

\* str.lower()
Lower(s) == [i \in 1..Len(s) |-> LowerChar(s[i])]

\* str.startswith(prefix)
StartsWith(s, prefix) ==
    Len(s) >= Len(prefix) /\ SubSeq(s, 1, Len(prefix)) = prefix

\* str.endswith(suffix)
EndsWith(s, suffix) ==
    Len(s) >= Len(suffix) /\ SubSeq(s, Len(s) - Len(suffix) + 1, Len(s)) = suffix

\* Characters str.isspace() holds of ("nbsp" is U+00A0).
Whitespace == {" ", "nbsp"}

RECURSIVE LStrip(_)
LStrip(s) == IF s # <<>> /\ Head(s) \in Whitespace THEN LStrip(Tail(s)) ELSE s

RECURSIVE RStrip(_)
RStrip(s) ==
    IF s # <<>> /\ s[Len(s)] \in Whitespace THEN RStrip(SubSeq(s, 1, Len(s) - 1)) ELSE s

\* str.strip()
Strip(s) == LStrip(RStrip(s))

\* Characters outside ASCII: "e_acute" is U+00E9, "comb_acute" U+0301,
\* "sharp_s" U+00DF, "nbsp" U+00A0.
NonAscii == {"e_acute", "comb_acute", "sharp_s", "nbsp"}

\* unicodedata.normalize("NFKD", c) for one character.
NFKDChar(c) ==
    IF c = "e_acute" THEN <<"e", "comb_acute">>
    ELSE IF c = "nbsp" THEN <<" ">>
    ELSE <<c>>

NFKD(s) == Flat([i \in 1..Len(s) |-> NFKDChar(s[i])])

\* s.encode("ascii", "ignore").decode("ascii")
AsciiIgnore(s) ==
    Flat([i \in 1..Len(s) |-> IF s[i] \in NonAscii THEN <<>> ELSE <<s[i]>>])

normalize_bookmark_name(name) == AsciiIgnore(NFKD(Strip(name)))

\* ------------------------------------------------------------ filenames
\* Characters the regular expression class \w matches.
WordChars == {"a", "b", "1", "_", "e_acute"}

RECURSIVE SubNonWord(_, _)
\* re.sub(r"\W+", "_", s): every maximal run of non-word characters becomes
\* one "_".  inRun tells whether the previous character was part of a run.
SubNonWord(s, inRun) ==
    IF s = <<>> THEN <<>>
    ELSE IF Head(s) \in WordChars THEN <<Head(s)>> \o SubNonWord(Tail(s), FALSE)
    ELSE IF inRun THEN SubNonWord(Tail(s), TRUE)
    ELSE <<"_">> \o SubNonWord(Tail(s), TRUE)

RECURSIVE StripUnderscore(_)
\* str.strip("_")
StripUnderscore(s) ==
    IF s # <<>> /\ Head(s) = "_" THEN StripUnderscore(Tail(s))
    ELSE IF s # <<>> /\ s[Len(s)] = "_" THEN StripUnderscore(SubSeq(s, 1, Len(s) - 1))
    ELSE s

sanitize_filename(stem) ==
    LET cleaned == StripUnderscore(SubNonWord(stem, FALSE))
    IN  IF cleaned = <<>> THEN <<"d", "o", "c", "u", "m", "e", "n", "t">> ELSE cleaned

\* f"{stem}.docx"
OutputFilename(stem) == sanitize_filename(stem) \o <<".docx">>

\* ---------------------------------------------------------- document tree
\* One element of the XML tree.  kind is the tag: "body", "p", "pPr", "r",
\* "bookmarkStart", "bookmarkEnd", or "other" (any other container: a table
\* cell, a hyperlink, a structured-document tag).  name and id are the w:name
\* and w:id attributes (<<>> and 0 when absent), text the text of a run's
\* w:t, before and after the attributes of a w:pPr's w:spacing ("unset" when
\* the attribute or the w:spacing element is absent).
Node(kind, kids, name, id, text, before, after) ==
    [kind |-> kind, kids |-> kids, name |-> name, id |-> id, text |-> text,
     before |-> before, after |-> after]

\* OxmlElement(tag): a fresh element without children or attributes.
OxmlElement(kind) == Node(kind, <<>>, <<>>, 0, <<>>, "unset", "unset")

Body == 1

\* elm.getparent(): the element that holds n as a child, 0 (None) for an
\* element that is in no child list.  The body's own parent, w:document, has
\* no parent and is no paragraph, so the walk of get_paragraph_element ends
\* the same way with the body's parent given as 0.
getparent(d, n) ==
    IF \E m \in 1..Len(d) : InSeq(n, d[m].kids)
    THEN CHOOSE m \in 1..Len(d) : InSeq(n, d[m].kids)
    ELSE 0

RECURSIVE get_paragraph_element(_, _)
get_paragraph_element(d, elm) ==
    IF elm = 0 THEN 0
    ELSE IF d[elm].kind = "p" THEN elm
    ELSE get_paragraph_element(d, getparent(d, elm))

RECURSIVE Iter(_, _)
\* element.iter(): the element and its descendants in document order.
Iter(d, n) == <<n>> \o Flat([i \in 1..Len(d[n].kids) |-> Iter(d, d[n].kids[i])])

\* element.iter(tag)
IterTag(d, n, tag) == SelectSeq(Iter(d, n), LAMBDA x : d[x].kind = tag)

\* list(iter_bookmark_starts(doc)): the (element, name) pairs of the
\* bookmarkStart elements of the body that carry a non-empty name.
iter_bookmark_starts(d) ==
    LET starts == SelectSeq(IterTag(d, Body, "bookmarkStart"), LAMBDA x : d[x].name # <<>>)
    IN  [i \in 1..Len(starts) |-> [bkm |-> starts[i], name |-> d[starts[i]].name]]

\* Mutant of find_bookmark_end: the identifiers are not compared.
find_bookmark_end_AnyId(d, start) ==
    LET ends == IterTag(d, Body, "bookmarkEnd")
    IN  IF d[start].id = 0 THEN 0
        ELSE IF ends = <<>> THEN 0
        ELSE ends[1]

\* Mutant of find_bookmark_end: every element is searched, in the body or not.
find_bookmark_end_Anywhere(d, start) ==
    LET start_id == d[start].id
        ends == SelectSeq([n \in 1..Len(d) |-> n],
                          LAMBDA x : d[x].kind = "bookmarkEnd" /\ d[x].id = start_id)
    IN  IF start_id = 0 THEN 0
        ELSE IF ends = <<>> THEN 0
        ELSE ends[1]

find_bookmark_end(d, start) ==
    LET start_id == d[start].id
        ends == SelectSeq(IterTag(d, Body, "bookmarkEnd"), LAMBDA x : d[x].id = start_id)
    IN  IF start_id = 0 THEN 0
        ELSE IF ends = <<>> THEN 0
        ELSE ends[1]

\* Mutant of make_run_text: the text of the w:t is not set.
make_run_text_NoText(text) == OxmlElement("r")

\* _make_run_text(text): a w:r holding one w:t with the text.
make_run_text(text) == [OxmlElement("r") EXCEPT !.text = text]

\* p_elm.find(qn("w:pPr")): the first child with that tag, 0 for None.
FindPPr(d, p) ==
    LET hits == SelectSeq(d[p].kids, LAMBDA x : d[x].kind = "pPr")
    IN  IF hits = <<>> THEN 0 ELSE hits[1]

\* Mutant of set_paragraph_spacing: an argument left out is written as "0".
set_paragraph_spacing_ZeroesBoth(d, p, before, after) ==
    LET found == FindPPr(d, p)
        pPr == IF found = 0 THEN Len(d) + 1 ELSE found
        d1 == IF found = 0
              THEN [Append(d, OxmlElement("pPr")) EXCEPT ![p].kids = <<pPr>> \o d[p].kids]
              ELSE d
    IN  [d1 EXCEPT ![pPr].before = IF before = "keep" THEN "0" ELSE before,
                   ![pPr].after = IF after = "keep" THEN "0" ELSE after]

\* set_paragraph_spacing(p_elm, before, after); "keep" is the default None.
set_paragraph_spacing(d, p, before, after) ==
    LET found == FindPPr(d, p)
        pPr == IF found = 0 THEN Len(d) + 1 ELSE found
        d1 == IF found = 0
              THEN [Append(d, OxmlElement("pPr")) EXCEPT ![p].kids = <<pPr>> \o d[p].kids]
              ELSE d
        d2 == IF before = "keep" THEN d1 ELSE [d1 EXCEPT ![pPr].before = before]
    IN  IF after = "keep" THEN d2 ELSE [d2 EXCEPT ![pPr].after = after]

\* Mutant of ToMove: the slice starts one child too late.
ToMove_SkipsFirst(children, first, i_start) == SubSeq(children, first + 1, i_start - 1)

\* children[first_movable_idx:i_start] with 1-based positions: the children
\* from position first up to the one before i_start.
ToMove(children, first, i_start) == SubSeq(children, first, i_start - 1)

\* Mutant of NothingBefore: < for <=.
NothingBefore_Strict(i_start, first_movable_idx) == i_start < first_movable_idx

\* i_start <= first_movable_idx: nothing but the w:pPr stands before the marker.
NothingBefore(i_start, first_movable_idx) == i_start <= first_movable_idx

\* The new paragraph's first child: copy.deepcopy(children[0]) when the
\* paragraph starts with a w:pPr (a fresh element with the same attributes).
CopiedPPr(d, children, has_ppr) == IF has_ppr THEN <<d[children[1]]>> ELSE <<>>

\* split_paragraph_before_bookmark(bkm_start): the tree afterwards and the
\* value returned.
split_paragraph_before_bookmark(d, bkm_start) ==
    LET p == get_paragraph_element(d, bkm_start)
        p_parent == IF p = 0 THEN 0 ELSE getparent(d, p)
        children == IF p = 0 THEN <<>> ELSE d[p].kids
        i_start == IndexOf(children, bkm_start)
        has_ppr == Len(children) > 0 /\ d[children[1]].kind = "pPr"
        first_movable_idx == IF has_ppr THEN 2 ELSE 1
        new_p == Len(d) + 1
        copied == CopiedPPr(d, children, has_ppr)
        to_move == ToMove(children, first_movable_idx, i_start)
        parent_children == d[p_parent].kids
        p_index == IndexOf(parent_children, p)
        \* new_p = OxmlElement("w:p"), the copied w:pPr appended to it
        d1 == Append(d, OxmlElement("p")) \o copied
        \* the nodes before the marker leave p and are appended to new_p
        d2 == [d1 EXCEPT
                 ![p].kids = SelectSeq(children, LAMBDA x : ~InSeq(x, to_move)),
                 ![new_p].kids = [i \in 1..Len(copied) |-> new_p + i] \o to_move]
        d3 == [d2 EXCEPT ![p_parent].kids = InsertAt(parent_children, p_index, new_p)]
        d4 == set_paragraph_spacing(d3, new_p, "keep", "0")
        d5 == set_paragraph_spacing(d4, p, "0", "keep")
    IN  IF p = 0 THEN [doc |-> d, ret |-> FALSE]
        ELSE IF p_parent = 0 THEN [doc |-> d, ret |-> FALSE]
        ELSE IF i_start = 0 THEN [doc |-> d, ret |-> FALSE]
        ELSE IF NothingBefore(i_start, first_movable_idx) THEN [doc |-> d, ret |-> FALSE]
        ELSE [doc |-> d5, ret |-> TRUE]

\* Mutant of Between: the slice starts one child too late.
Between_SkipsFirst(children, i_start, i_end) == SubSeq(children, i_start + 2, i_end - 1)

\* Mutant of Between: the slice runs to the end of the child list.
Between_ToEnd(children, i_start, i_end) ==
    SelectSeq(SubSeq(children, i_start + 1, Len(children)), LAMBDA x : x # children[i_end])

\* children[i_start + 1 : i_end] with 1-based positions: the children
\* strictly between the two markers (none when the end is not after the start).
Between(children, i_start, i_end) == SubSeq(children, i_start + 1, i_end - 1)

\* start_parent is None or start_parent != end_parent
DifferentParents(start_parent, end_parent) ==
    start_parent = 0 \/ start_parent # end_parent

\* Mutant of replace_bookmark_range_with_text: the run is inserted before
\* the parents are compared.
replace_InsertsFirst(d, bkm_start, text) ==
    LET bkm_end == find_bookmark_end(d, bkm_start)
        start_parent == getparent(d, bkm_start)
        end_parent == IF bkm_end = 0 THEN 0 ELSE getparent(d, bkm_end)
        children == d[start_parent].kids
        i_start == IndexOf(children, bkm_start)
        i_end == IndexOf(children, bkm_end)
        removed == IF i_end = 0 THEN <<>> ELSE Between(children, i_start, i_end)
        kept == SelectSeq(children, LAMBDA x : ~InSeq(x, removed))
        d1 == [Append(d, make_run_text(text)) EXCEPT
                 ![start_parent].kids = InsertAt(kept, i_start + 1, Len(d) + 1)]
    IN  IF bkm_end = 0 THEN [doc |-> d, ret |-> FALSE]
        ELSE IF start_parent = 0 THEN [doc |-> d, ret |-> FALSE]
        ELSE [doc |-> d1, ret |-> start_parent = end_parent]

\* replace_bookmark_range_with_text(doc, bkm_start, text): the tree
\* afterwards and the value returned.
replace_bookmark_range_with_text(d, bkm_start, text) ==
    LET bkm_end == find_bookmark_end(d, bkm_start)
        start_parent == getparent(d, bkm_start)
        end_parent == IF bkm_end = 0 THEN 0 ELSE getparent(d, bkm_end)
        children == d[start_parent].kids
        i_start == IndexOf(children, bkm_start)
        i_end == IndexOf(children, bkm_end)
        removed == Between(children, i_start, i_end)
        kept == SelectSeq(children, LAMBDA x : ~InSeq(x, removed))
        run == Len(d) + 1
        d1 == [Append(d, make_run_text(text)) EXCEPT
                 ![start_parent].kids = InsertAt(kept, i_start + 1, run)]
    IN  IF bkm_end = 0 THEN [doc |-> d, ret |-> FALSE]
        ELSE IF DifferentParents(start_parent, end_parent) THEN [doc |-> d, ret |-> FALSE]
        \* except ValueError: a marker that is no child of the parent
        ELSE IF i_start = 0 \/ i_end = 0 THEN [doc |-> d, ret |-> FALSE]
        ELSE [doc |-> d1, ret |-> TRUE]

\* ----------------------------------------------------------------- filter
PrefixText == <<"t", "e", "x", "t">>
PrefixCheck == <<"c", "h", "e", "c", "k">>

\* Mutant of ExcludedPrefix: the name is not lowercased first.
ExcludedPrefix_CaseSensitive(name) ==
    StartsWith(name, PrefixText) \/ StartsWith(name, PrefixCheck)

\* lower_name.startswith("text") or lower_name.startswith("check")
ExcludedPrefix(name) ==
    LET lower_name == Lower(name)
    IN  StartsWith(lower_name, PrefixText) \/ StartsWith(lower_name, PrefixCheck)

\* The two `continue` tests of process_document's loop, in the code's order:
\* TRUE when the bookmark goes on to be normalized, split and replaced.
PassesFilter(name, valid) ==
    IF ExcludedPrefix(name) THEN FALSE
    ELSE IF name \notin valid THEN FALSE
    ELSE TRUE

\* load_valid_bookmarks_from_excel: the stripped cells of the column.
LoadValid(column) == {Strip(c) : c \in column}

\* ----------------------------------------------------------------- inputs
ChildName == <<"C", "h", "i", "l", "d", "N", "a", "m", "e">>
TextBox1 == <<"T", "e", "x", "t", "B", "o", "x", "1">>
Unrelated == <<"U", "n", "r", "e", "l", "a", "t", "e", "d">>
BookmarkNames == {ChildName, TextBox1, Unrelated}

\* Largest number of bookmarks of a generated document.
MaxBookmarks == 2

Tok(t, k) == [t |-> t, k |-> k]

\* What may stand at an inline position of a generated document: nothing, a
\* run, the start marker of bookmark k, the end marker with identifier k.
InlineTokens ==
    {Tok("none", 0), Tok("r", 0)}
        \cup {Tok("s", k) : k \in 1..MaxBookmarks}
        \cup {Tok("e", k) : k \in 1..MaxBookmarks}

Proto(kind, kids) == [kind |-> kind, kids |-> kids]

\* Document shapes, nodes numbered in document order.  "slot" is an inline
\* position to fill, "pslot" the position of a paragraph's w:pPr.
\* One paragraph.
SkelPara ==
    << Proto("body", <<2>>), Proto("p", <<3, 4, 5, 6, 7, 8>>), Proto("pslot", <<>>),
       Proto("slot", <<>>), Proto("slot", <<>>), Proto("slot", <<>>),
       Proto("slot", <<>>), Proto("slot", <<>>) >>
\* Markers between the paragraphs of the body, around a paragraph.
SkelBody ==
    << Proto("body", <<2, 3, 7>>), Proto("slot", <<>>), Proto("p", <<4, 5, 6>>),
       Proto("r", <<>>), Proto("slot", <<>>), Proto("slot", <<>>), Proto("slot", <<>>) >>
\* Markers inside an inline container of a paragraph.
SkelInline ==
    << Proto("body", <<2>>), Proto("p", <<3, 4, 7>>), Proto("slot", <<>>),
       Proto("other", <<5, 6>>), Proto("slot", <<>>), Proto("slot", <<>>),
       Proto("slot", <<>>) >>
\* Two paragraphs.
SkelCross ==
    << Proto("body", <<2, 5>>), Proto("p", <<3, 4>>), Proto("slot", <<>>),
       Proto("slot", <<>>), Proto("p", <<6, 7>>), Proto("slot", <<>>),
       Proto("slot", <<>>) >>
\* Markers in the body around a container (a table cell) holding a paragraph.
SkelCell ==
    << Proto("body", <<2, 3, 8>>), Proto("slot", <<>>), Proto("other", <<4>>),
       Proto("p", <<5, 6, 7>>), Proto("r", <<>>), Proto("slot", <<>>),
       Proto("slot", <<>>), Proto("slot", <<>>) >>

Skeletons == {SkelPara, SkelBody, SkelInline, SkelCross, SkelCell}

Slots(skel) == {n \in 1..Len(skel) : skel[n].kind = "slot"}

\* The fillings of a shape: a token for every slot, every marker at most
\* once, the starts numbered in document order, and an end marker only after
\* its start marker (the data model's invariant).
Fillings(skel) ==
    LET pos(f, t) == {n \in Slots(skel) : f[n] = t}
    IN  {f \in [Slots(skel) -> InlineTokens] :
           \A k \in 1..MaxBookmarks :
              /\ Cardinality(pos(f, Tok("s", k))) <= 1
              /\ Cardinality(pos(f, Tok("e", k))) <= 1
              /\ \A n \in pos(f, Tok("e", k)) : \E m \in pos(f, Tok("s", k)) : m < n
              /\ k > 1 =>
                   \A n \in pos(f, Tok("s", k)) : \E m \in pos(f, Tok("s", k - 1)) : m < n}

\* Number of bookmarks of a filling.
NStarts(f) == Cardinality({n \in DOMAIN f : f[n].t = "s"})

\* Whether a shape has a place for a paragraph's w:pPr.
PPrChoices(skel) ==
    IF \E n \in 1..Len(skel) : skel[n].kind = "pslot" THEN BOOLEAN ELSE {FALSE}

RunText == <<"x">>

Digits == <<"1", "2", "3", "4", "5", "6", "7", "8", "9">>

\* The text of the run at position n of a shape: every run reads differently.
RunTextAt(n) == <<"x", Digits[n]>>

\* The parsed tree of a shape under a filling; ppr tells whether the w:pPr
\* is present, names[k] is the name of bookmark k.  A position left empty
\* stays in the node table as an "absent" element that no child list holds.
Build(skel, f, ppr, names) ==
    [n \in 1..Len(skel) |->
       LET kind == skel[n].kind
           filled(x) == IF skel[x].kind = "slot" THEN f[x].t # "none"
                        ELSE IF skel[x].kind = "pslot" THEN ppr
                        ELSE TRUE
           kids == SelectSeq(skel[n].kids, filled)
       IN  IF kind = "pslot"
           THEN IF ppr THEN Node("pPr", <<>>, <<>>, 0, <<>>, "120", "240")
                ELSE OxmlElement("absent")
           ELSE IF kind # "slot"
           THEN Node(kind, kids, <<>>, 0, IF kind = "r" THEN RunTextAt(n) ELSE <<>>,
                     "unset", "unset")
           ELSE IF f[n].t = "r" THEN Node("r", <<>>, <<>>, 0, RunTextAt(n), "unset", "unset")
           ELSE IF f[n].t = "s"
           THEN Node("bookmarkStart", <<>>, names[f[n].k], f[n].k, <<>>, "unset", "unset")
           ELSE IF f[n].t = "e"
           THEN Node("bookmarkEnd", <<>>, <<>>, f[n].k, <<>>, "unset", "unset")
           ELSE OxmlElement("absent")]

\* Hand-written documents: the scenarios of the specification and the
\* attribute cases the generated shapes leave out.
BkmStart(name, id) == Node("bookmarkStart", <<>>, name, id, <<>>, "unset", "unset")
BkmEnd(id) == Node("bookmarkEnd", <<>>, <<>>, id, <<>>, "unset", "unset")
Run(text) == Node("r", <<>>, <<>>, 0, text, "unset", "unset")
Container(kind, kids) == Node(kind, kids, <<>>, 0, <<>>, "unset", "unset")

\* [prefix-text][bookmark "ChildName" start][end]
DocPrefix ==
    << Container("body", <<2>>), Container("p", <<3, 4, 5>>),
       Run(<<"p", "r", "e">>), BkmStart(ChildName, 1), BkmEnd(1) >>
\* Bookmarks TextBox1, ChildName and Unrelated in one paragraph.
DocThree ==
    << Container("body", <<2>>), Container("p", <<3, 4, 5, 6, 7, 8, 9, 10>>),
       BkmStart(TextBox1, 1), BkmEnd(1), BkmStart(ChildName, 2), Run(RunText), BkmEnd(2),
       BkmStart(Unrelated, 3), Run(RunText), BkmEnd(3) >>
\* A start marker without w:id, a start marker without a name, then a
\* regular bookmark.
DocNoId ==
    << Container("body", <<2>>), Container("p", <<3, 4, 5, 6, 7, 8>>),
       BkmStart(ChildName, 0), BkmEnd(0), BkmStart(<<>>, 1), BkmEnd(1),
       BkmStart(ChildName, 2), BkmEnd(2) >>
\* No bookmark at all.
DocPlain == << Container("body", <<2>>), Container("p", <<3>>), Run(RunText) >>

ScenarioDocs == {DocPrefix, DocThree, DocNoId, DocPlain}
BatchDocs == {DocPrefix, DocThree, DocNoId}

\* The "Bookmark Name" column of the spreadsheet as read (cells not yet
\* stripped).
ColumnBoth == {<<" ">> \o ChildName \o <<" ">>, TextBox1}
ColumnChild == {ChildName}

Excel(status, column) == [status |-> status, column |-> column]
File(stem, d) == [stem |-> stem, doc |-> d]

StemPlain == <<"b">>
\* File names of a batch: two that sanitize to the same name, and one that
\* sanitizes to nothing.
Stems == {<<"a", " ", "b">>, <<"a", "_", "b">>, <<"-">>}

Input(excel, files) == [excel |-> excel, paths |-> files]

\* Runs over one input file other than a generated document: the scenarios
\* under both spreadsheets, the setup failures, and an empty input directory.
OneDocInputs ==
    {Input(Excel("ok", c), <<File(StemPlain, d)>>) :
       c \in {ColumnBoth, ColumnChild}, d \in ScenarioDocs}
        \cup {Input(Excel(st, ColumnBoth), <<File(StemPlain, DocPrefix)>>) :
                st \in {"missing", "nocolumn"}}
        \cup {Input(Excel("ok", ColumnBoth), <<>>)}

\* Names for the filter alone: the cases of letters, of the two prefixes and
\* of near misses.
LowerChildName == <<"c", "h", "i", "l", "d", "n", "a", "m", "e">>
FilterNames ==
    { ChildName, LowerChildName, TextBox1, Unrelated,
      <<"t", "e", "x", "t">>, <<"T", "E", "X", "T", "a">>, <<"T", "e", "x">>,
      <<"x", "t", "e", "x", "t">>, <<"C", "H", "E", "C", "K">>,
      <<"c", "h", "e", "c", "k", "B">>, <<"C", "h", "e", "c">> }
FilterApproved ==
    { ChildName, LowerChildName, TextBox1, <<"C", "H", "E", "C", "K">>,
      <<"T", "e", "x">>, <<"x", "t", "e", "x", "t">> }

\* One paragraph holding one bookmark of the given name around a run.
DocNamed(name) ==
    << Container("body", <<2>>), Container("p", <<3, 4, 5>>),
       BkmStart(name, 1), Run(RunText), BkmEnd(1) >>

\* Runs over one document with one bookmark: every name against every
\* approved set.
FilterInputs ==
    {Input(Excel("ok", column), <<File(StemPlain, DocNamed(name))>>) :
       column \in SUBSET FilterApproved, name \in FilterNames}
        \cup {Input(Excel("missing", {}), <<>>), Input(Excel("ok", {}), <<>>)}

\* The sequences over S of length at most n.
SeqsUpTo(S, n) == UNION {[1..k -> S] : k \in 0..n}

\* Batch runs: up to MaxDocs files in discovery order.
BatchInputs ==
    {Input(Excel(st, ColumnChild), fs) :
       st \in {"ok", "missing", "nocolumn"},
       fs \in SeqsUpTo({File(stem, d) : stem \in Stems, d \in BatchDocs}, MaxDocs)}

\* ------------------------------------------------------------------ sort
\* The characters of names and tokens in code-point order.
AsciiOrder ==
    << " ", "1", ";", "A", "B", "C", "N", "T", "U", "a", "d", "e", "h", "i", "l", "m", "n",
       "o", "r", "t", "x", "y", "z", "{", "}" >>

CodePoint(c) == IndexOf(AsciiOrder, c)

RECURSIVE StrLess(_, _)
\* Python's < on strings.
StrLess(a, b) ==
    IF b = <<>> THEN FALSE
    ELSE IF a = <<>> THEN TRUE
    ELSE IF Head(a) = Head(b) THEN StrLess(Tail(a), Tail(b))
    ELSE CodePoint(Head(a)) < CodePoint(Head(b))

RECURSIVE Sorted(_)
\* sorted(S) for a set of strings.
Sorted(S) ==
    IF S = {} THEN <<>>
    ELSE LET least == CHOOSE x \in S : \A y \in S \ {x} : StrLess(x, y)
         IN  <<least>> \o Sorted(S \ {least})

\* ------------------------------------------------------------------ state
VARIABLES
    pc,                   \* position in main() / process_document()
    excel,                \* the spreadsheet file: status and column cells
    paths,                \* find_input_docx_files(INPUT_DIR)
    path_i,               \* index of the `for path in paths` loop
    valid_bookmarks,
    doc,                  \* the tree of the document being processed
    bookmarks_to_process, \* the snapshot taken before the loop
    bkm_i,                \* index of the `for bkm, name` loop
    bookmark_count,
    split_ret,            \* value returned by the last split
    calls,                \* this document's loop iterations and what they returned
    unique_bookmarks,
    tally_rows,
    writes,               \* files written, in order
    log                   \* console lines "Processed" / "ERROR processing"

\* The token stage (apply_json_to_docx.py) and the master-document stage
\* (create_main_docx.py), separate processes that read the files on disk.
VARIABLES
    tally_file,           \* output/bookmarks_tally.csv: status, fieldnames, rows
    dictionary,           \* the spreadsheet: status and (Bookmark Name, Json Path) rows
    bookmark_docx,        \* output/bookmarks: file name -> texts of the runs
    bookmark_to_token,    \* the dict of load_data_dictionary, in insertion order
    row_i,                \* index of the `for row in reader` loop
    final_tally,          \* output/final_tally.csv: whether it exists, its rows
    pairs                 \* the set built by create_main_docx.py

tokVars ==
    << tally_file, dictionary, bookmark_docx, bookmark_to_token, row_i, final_tally, pairs >>

vars ==
    << pc, excel, paths, path_i, valid_bookmarks, doc, bookmarks_to_process, bkm_i,
       bookmark_count, split_ret, calls, unique_bookmarks, tally_rows, writes, log,
       tally_file, dictionary, bookmark_docx, bookmark_to_token, row_i, final_tally, pairs >>

NoDoc == <<>>

\* The token stage's state before it starts, given the files it will read.
TokInitWith(tally, dict, docs) ==
    /\ tally_file = tally
    /\ dictionary = dict
    /\ bookmark_docx = docs
    /\ bookmark_to_token = <<>>
    /\ row_i = 1
    /\ final_tally = [exists |-> FALSE, rows |-> <<>>]
    /\ pairs = {}

\* A run of main.py alone: the later stages are not started.
TokIdle == TokInitWith([status |-> "missing", fieldnames |-> <<>>, rows |-> <<>>],
                       [status |-> "missing", rows |-> <<>>], {})

\* The state main() starts in, given the spreadsheet and the input files.
InitWith(e, files) ==
    /\ excel = e
    /\ paths = files
    /\ pc = "start"
    /\ path_i = 1
    /\ valid_bookmarks = {}
    /\ doc = NoDoc
    /\ bookmarks_to_process = <<>>
    /\ bkm_i = 1
    /\ bookmark_count = 0
    /\ split_ret = FALSE
    /\ calls = <<>>
    /\ unique_bookmarks = {}
    /\ tally_rows = <<>>
    /\ writes = <<>>
    /\ log = <<>>
    /\ TokIdle

InitFrom(inputs) == \E in \in inputs : InitWith(in.excel, in.paths)

\* A run over one input file: a document of any shape, filling and naming,
\* or one of OneDocInputs.
Init ==
    \/ \E skel \in Skeletons : \E f \in Fillings(skel) : \E ppr \in PPrChoices(skel) :
          \E names \in [1..NStarts(f) -> BookmarkNames] :
             InitWith(Excel("ok", ColumnBoth), <<File(StemPlain, Build(skel, f, ppr, names))>>)
    \/ InitFrom(OneDocInputs)

InitRun == InitFrom(BatchInputs)

InitFilter == InitFrom(FilterInputs)

docVars == << doc, bookmarks_to_process, bkm_i, bookmark_count, split_ret, calls >>
runVars == << excel, paths, valid_bookmarks >>

\* main(): valid_bookmarks = load_valid_bookmarks_from_excel(DATA_DICT_FILE);
\* a missing file or column raises out of main().
Load ==
    /\ pc = "start"
    /\ IF excel.status = "ok"
       THEN /\ valid_bookmarks' = LoadValid(excel.column)
            /\ pc' = "find"
       ELSE /\ valid_bookmarks' = valid_bookmarks
            /\ pc' = "fatal"
    /\ UNCHANGED << excel, paths, path_i, docVars, unique_bookmarks, tally_rows, writes, log >>
    /\ UNCHANGED tokVars

\* main(): paths = find_input_docx_files(...); return when there is none.
Find ==
    /\ pc = "find"
    /\ pc' = IF paths = <<>> THEN "done" ELSE "loop"
    /\ UNCHANGED << runVars, path_i, docVars, unique_bookmarks, tally_rows, writes, log >>
    /\ UNCHANGED tokVars

\* process_document: Document(input_path), the counter and the snapshot.
Open ==
    /\ pc = "loop"
    /\ path_i <= Len(paths)
    /\ doc' = paths[path_i].doc
    /\ bookmark_count' = 0
    /\ bookmarks_to_process' = iter_bookmark_starts(paths[path_i].doc)
    /\ bkm_i' = 1
    /\ calls' = <<>>
    /\ pc' = "filter"
    /\ UNCHANGED << runVars, path_i, split_ret, unique_bookmarks, tally_rows, writes, log >>
    /\ UNCHANGED tokVars

\* Document(input_path) raises (a file that is no valid package).
OpenFail ==
    /\ pc = "loop"
    /\ path_i <= Len(paths)
    /\ pc' = "except"
    /\ UNCHANGED << runVars, path_i, docVars, unique_bookmarks, tally_rows, writes, log >>
    /\ UNCHANGED tokVars

\* One iteration of the loop up to the two `continue` tests, and for a
\* bookmark that passes them the normalized name recorded in unique_set.
FilterStep ==
    /\ pc = "filter"
    /\ bkm_i <= Len(bookmarks_to_process)
    /\ LET b == bookmarks_to_process[bkm_i]
           cleaned == normalize_bookmark_name(b.name)
       IN  IF PassesFilter(b.name, valid_bookmarks)
           THEN /\ unique_bookmarks' =
                      IF cleaned # <<>> THEN unique_bookmarks \cup {cleaned}
                      ELSE unique_bookmarks
                /\ pc' = "split"
                /\ UNCHANGED << bkm_i, calls >>
           ELSE /\ calls' = Append(calls, [bkm |-> b.bkm, name |-> b.name, eligible |-> FALSE,
                                            split |-> FALSE, replaced |-> FALSE])
                /\ bkm_i' = bkm_i + 1
                /\ UNCHANGED << pc, unique_bookmarks >>
    /\ UNCHANGED << runVars, path_i, doc, bookmarks_to_process, bookmark_count, split_ret,
                    tally_rows, writes, log >>
    /\ UNCHANGED tokVars

\* split_paragraph_before_bookmark(bkm)
SplitStep ==
    /\ pc = "split"
    /\ LET r == split_paragraph_before_bookmark(doc, bookmarks_to_process[bkm_i].bkm)
       IN  /\ doc' = r.doc
           /\ split_ret' = r.ret
    /\ pc' = "replace"
    /\ UNCHANGED << runVars, path_i, bookmarks_to_process, bkm_i, bookmark_count, calls,
                    unique_bookmarks, tally_rows, writes, log >>
    /\ UNCHANGED tokVars

\* Mutant of Counted: the counter goes up whatever was returned.
Counted_Always(count, ok) == count + 1

\* bookmark_count after replace_bookmark_range_with_text returned ok.
Counted(count, ok) == IF ok THEN count + 1 ELSE count

\* if replace_bookmark_range_with_text(doc, bkm, name): bookmark_count += 1
ReplaceStep ==
    /\ pc = "replace"
    /\ LET b == bookmarks_to_process[bkm_i]
           r == replace_bookmark_range_with_text(doc, b.bkm, b.name)
       IN  /\ doc' = r.doc
           /\ bookmark_count' = Counted(bookmark_count, r.ret)
           /\ calls' = Append(calls, [bkm |-> b.bkm, name |-> b.name, eligible |-> TRUE,
                                       split |-> split_ret, replaced |-> r.ret])
    /\ bkm_i' = bkm_i + 1
    /\ pc' = "filter"
    /\ UNCHANGED << runVars, path_i, bookmarks_to_process, split_ret, unique_bookmarks,
                    tally_rows, writes, log >>
    /\ UNCHANGED tokVars

\* An exception raised while the tree is being changed.
Raise ==
    /\ pc \in {"split", "replace"}
    /\ pc' = "except"
    /\ UNCHANGED << runVars, path_i, docVars, unique_bookmarks, tally_rows, writes, log >>
    /\ UNCHANGED tokVars

\* doc.save(output_path) after the loop.
Save ==
    /\ pc = "filter"
    /\ bkm_i > Len(bookmarks_to_process)
    /\ writes' = Append(writes, [file |-> "docx", name |-> OutputFilename(paths[path_i].stem),
                                 rows |-> <<>>])
    /\ pc' = "return"
    /\ UNCHANGED << runVars, path_i, docVars, unique_bookmarks, tally_rows, log >>
    /\ UNCHANGED tokVars

\* doc.save raises.
SaveFail ==
    /\ pc = "filter"
    /\ bkm_i > Len(bookmarks_to_process)
    /\ pc' = "except"
    /\ UNCHANGED << runVars, path_i, docVars, unique_bookmarks, tally_rows, writes, log >>
    /\ UNCHANGED tokVars

\* Mutant of Appended: the row is put in front.
Appended_InFront(rows, output_name, count) ==
    <<[document_name |-> output_name, number_of_bookmarks |-> count]>> \o rows

\* The rows of the tally after a document returned (output_name, count).
Appended(rows, output_name, count) ==
    Append(rows, [document_name |-> output_name, number_of_bookmarks |-> count])

\* process_document returns; main(): tally_rows.append, print "Processed".
Return ==
    /\ pc = "return"
    /\ tally_rows' = Appended(tally_rows, OutputFilename(paths[path_i].stem), bookmark_count)
    /\ log' = Append(log, [line |-> "Processed", path |-> path_i])
    /\ path_i' = path_i + 1
    /\ doc' = NoDoc
    /\ bookmarks_to_process' = <<>>
    /\ pc' = "loop"
    /\ UNCHANGED << runVars, bkm_i, bookmark_count, split_ret, calls, unique_bookmarks, writes >>
    /\ UNCHANGED tokVars

\* Mutant of ExceptTarget: the exception leaves main().
ExceptTarget_Propagates == "fatal"

\* Where control goes after `except Exception` printed the error: back to
\* the `for path in paths` loop.
ExceptTarget == "loop"

\* main(): except Exception: print "ERROR processing", go on with the loop.
Except ==
    /\ pc = "except"
    /\ log' = Append(log, [line |-> "ERROR", path |-> path_i])
    /\ path_i' = path_i + 1
    /\ doc' = NoDoc
    /\ bookmarks_to_process' = <<>>
    /\ pc' = ExceptTarget
    /\ UNCHANGED << runVars, bkm_i, bookmark_count, split_ret, calls, unique_bookmarks,
                    tally_rows, writes >>
    /\ UNCHANGED tokVars

\* write_tally(tally_rows): the header and the rows.
write_tally(rows) == [file |-> "tally", name |-> <<>>, rows |-> rows]

\* Mutant of write_unique_bookmarks: the rows in descending order.
write_unique_bookmarks_Descending(unique_set) ==
    LET names == Sorted(unique_set)
    IN  [file |-> "unique", name |-> <<>>,
         rows |-> [i \in 1..Len(names) |->
                     [bookmark_name |-> names[Len(names) + 1 - i], json |-> <<>>]]]

\* write_unique_bookmarks(unique_set): a row [name, ""] per name, sorted.
write_unique_bookmarks(unique_set) ==
    LET names == Sorted(unique_set)
    IN  [file |-> "unique", name |-> <<>>,
         rows |-> [i \in 1..Len(names) |-> [bookmark_name |-> names[i], json |-> <<>>]]]

\* Mutant of Flush: the files are written whether or not a document succeeded.
Flush_Unguarded ==
    /\ pc = "loop"
    /\ path_i > Len(paths)
    /\ writes' = writes \o <<write_tally(tally_rows), write_unique_bookmarks(unique_bookmarks)>>
    /\ pc' = "done"
    /\ UNCHANGED << runVars, path_i, docVars, unique_bookmarks, tally_rows, log >>
    /\ UNCHANGED tokVars

\* main(): after the loop, if tally_rows: write both CSV files.
Flush ==
    /\ pc = "loop"
    /\ path_i > Len(paths)
    /\ writes' = IF tally_rows # <<>>
                 THEN writes \o <<write_tally(tally_rows), write_unique_bookmarks(unique_bookmarks)>>
                 ELSE writes
    /\ pc' = "done"
    /\ UNCHANGED << runVars, path_i, docVars, unique_bookmarks, tally_rows, log >>
    /\ UNCHANGED tokVars

Next ==
    \/ Load
    \/ Find
    \/ Open
    \/ OpenFail
    \/ FilterStep
    \/ SplitStep
    \/ ReplaceStep
    \/ Raise
    \/ Save
    \/ SaveFail
    \/ Return
    \/ Except
    \/ Flush

Spec == Init /\ [][Next]_vars

SpecRun == InitRun /\ [][Next]_vars

SpecFilter == InitFilter /\ [][Next]_vars

\* ----------------------------------------------------------- token stage
\* Largest number of rows of the spreadsheet in a token-stage run.
MaxRows == 2

OpenBraces == <<"{", "{">>
CloseBraces == <<"}", "}">>

\* Mutant of Token: the value is wrapped whatever it looks like.
Token_AlwaysWraps(json_str) == OpenBraces \o json_str \o CloseBraces

\* token = json_str if (json_str.startswith("{{") and json_str.endswith("}}"))
\*         else f"{{{{{json_str}}}}}"
Token(json_str) ==
    IF StartsWith(json_str, OpenBraces) /\ EndsWith(json_str, CloseBraces) THEN json_str
    ELSE OpenBraces \o json_str \o CloseBraces

\* An empty spreadsheet cell (pandas reads it as NaN).
NaN == <<"NaN">>

\* mapping[key] = value on a dict kept as its items in insertion order.
DictSet(mapping, key, value) ==
    IF \E i \in 1..Len(mapping) : mapping[i].bookmark = key
    THEN [i \in 1..Len(mapping) |->
            IF mapping[i].bookmark = key THEN [mapping[i] EXCEPT !.token = value]
            ELSE mapping[i]]
    ELSE Append(mapping, [bookmark |-> key, token |-> value])

RECURSIVE LoadRows(_, _)
\* The `for _, row in df.iterrows()` loop of load_data_dictionary.
LoadRows(rows, mapping) ==
    IF rows = <<>> THEN mapping
    ELSE LET row == Head(rows)
             bookmark_str == Strip(row.bookmark)
             json_str == Strip(row.json)
         IN  IF row.bookmark = NaN \/ row.json = NaN THEN LoadRows(Tail(rows), mapping)
             ELSE IF bookmark_str = <<>> \/ json_str = <<>> THEN LoadRows(Tail(rows), mapping)
             ELSE LoadRows(Tail(rows), DictSet(mapping, bookmark_str, Token(json_str)))

\* load_data_dictionary(path) for a spreadsheet that has both columns.
load_data_dictionary(dict) == LoadRows(dict.rows, <<>>)

RECURSIVE Contains(_, _)
\* sub in s
Contains(s, sub) ==
    IF Len(s) < Len(sub) THEN FALSE
    ELSE IF StartsWith(s, sub) THEN TRUE
    ELSE Contains(Tail(s), sub)

RECURSIVE ReplaceAll(_, _, _)
\* s.replace(sub, rep) for a non-empty sub: the occurrences from the left,
\* not overlapping.
ReplaceAll(s, sub, rep) ==
    IF Len(s) < Len(sub) THEN s
    ELSE IF StartsWith(s, sub) THEN rep \o ReplaceAll(SubSeq(s, Len(sub) + 1, Len(s)), sub, rep)
    ELSE <<Head(s)>> \o ReplaceAll(Tail(s), sub, rep)

RECURSIVE ApplyToRun(_, _, _)
\* The `for bookmark, token in bookmark_to_token.items()` loop on one run:
\* the new text and the entries that were used.  acc is
\* [text, bookmarks, tokens].
ApplyToRun(acc, mapping, k) ==
    IF k > Len(mapping) THEN acc
    ELSE IF Contains(acc.text, mapping[k].bookmark)
    THEN ApplyToRun([text |-> ReplaceAll(acc.text, mapping[k].bookmark, mapping[k].token),
                     bookmarks |-> acc.bookmarks \cup {mapping[k].bookmark},
                     tokens |-> acc.tokens \cup {mapping[k].token}], mapping, k + 1)
    ELSE ApplyToRun(acc, mapping, k + 1)

\* apply_data_dict_to_doc(doc_path, bookmark_to_token) on the texts of the
\* document's runs: the texts saved and the two sorted lists returned.
apply_data_dict_to_doc(texts, mapping) ==
    LET done == [i \in 1..Len(texts) |->
                   ApplyToRun([text |-> texts[i], bookmarks |-> {}, tokens |-> {}], mapping, 1)]
    IN  [texts |-> [i \in 1..Len(texts) |-> done[i].text],
         bookmarks_replaced |-> Sorted(UNION {done[i].bookmarks : i \in 1..Len(texts)}),
         json_used |-> Sorted(UNION {done[i].tokens : i \in 1..Len(texts)})]

RECURSIVE Join(_, _)
\* sep.join(list)
Join(list, sep) ==
    IF list = <<>> THEN <<>>
    ELSE IF Len(list) = 1 THEN list[1]
    ELSE list[1] \o sep \o Join(Tail(list), sep)

RECURSIVE SplitOn(_, _)
\* s.split(c) for a one-character separator.
SplitOn(s, c) ==
    IF ~InSeq(c, s) THEN <<s>>
    ELSE LET i == IndexOf(s, c)
         IN  <<SubSeq(s, 1, i - 1)>> \o SplitOn(SubSeq(s, i + 1, Len(s)), c)

\* detect_filename_column(fieldnames) for the lower-case headers write_tally
\* writes: the first candidate among them, else the first column.
detect_filename_column(fieldnames) ==
    LET candidates == <<"filename", "file", "docx_file", "document", "doc_name",
                        "document_name">>
        hits == SelectSeq(candidates, LAMBDA c : InSeq(c, fieldnames))
    IN  IF hits # <<>> THEN hits[1] ELSE fieldnames[1]

\* Mutant of TokSetupFails: the "Json Path" column is not asked for.
TokSetupFails_NoJsonCheck(tally, dict) ==
    \/ tally.status = "missing"
    \/ dict.status = "missing"
    \/ dict.status = "nobookmark"

\* The checks of main() and load_data_dictionary that raise: the tally file
\* or the spreadsheet does not exist, or the spreadsheet lacks the
\* "Bookmark Name" or the "Json Path" column.
TokSetupFails(tally, dict) ==
    \/ tally.status = "missing"
    \/ dict.status = "missing"
    \/ dict.status = "nobookmark"
    \/ dict.status = "nojson"

mainVars ==
    << excel, paths, path_i, valid_bookmarks, doc, bookmarks_to_process, bkm_i,
       bookmark_count, split_ret, calls, unique_bookmarks, tally_rows, log >>

\* apply_json_to_docx.main(): the two existence checks and
\* load_data_dictionary(DATA_DICT_FILE).
TokLoad ==
    /\ pc = "tok_start"
    /\ IF TokSetupFails(tally_file, dictionary)
       THEN /\ pc' = "tok_fatal"
            /\ UNCHANGED bookmark_to_token
       ELSE /\ bookmark_to_token' = load_data_dictionary(dictionary)
            /\ pc' = "tok_tally"
    /\ UNCHANGED << mainVars, writes, tally_file, dictionary, bookmark_docx, row_i,
                    final_tally, pairs >>

\* main(): the tally is opened and its header read (no columns raises),
\* then the final tally is opened for writing and its header written.
TokOpenTally ==
    /\ pc = "tok_tally"
    /\ IF tally_file.fieldnames = <<>>
       THEN /\ pc' = "tok_fatal"
            /\ UNCHANGED final_tally
       ELSE /\ final_tally' = [exists |-> TRUE, rows |-> <<>>]
            /\ pc' = "tok_loop"
    /\ UNCHANGED << mainVars, writes, tally_file, dictionary, bookmark_docx,
                    bookmark_to_token, row_i, pairs >>

\* The file of output/bookmarks with the given name, as a set of none or one.
DocxAt(docx_name) == {f \in bookmark_docx : f.name = docx_name}

\* One iteration of `for row in reader`: the document, when it exists, is
\* rewritten and saved under output/json, and the row is written.
TokRow ==
    /\ pc = "tok_loop"
    /\ row_i <= Len(tally_file.rows)
    /\ LET row == tally_file.rows[row_i]
           docx_name == row[detect_filename_column(tally_file.fieldnames)]
           found == DocxAt(docx_name)
           texts == IF found = {} THEN <<>> ELSE (CHOOSE f \in found : TRUE).texts
           r == apply_data_dict_to_doc(texts, bookmark_to_token)
           bookmarks_replaced == IF found = {} THEN <<>> ELSE r.bookmarks_replaced
           json_used == IF found = {} THEN <<>> ELSE r.json_used
       IN  /\ writes' = IF found = {} THEN writes
                        ELSE Append(writes, [file |-> "token_docx", name |-> docx_name,
                                             rows |-> r.texts])
           /\ final_tally' =
                [final_tally EXCEPT !.rows =
                   Append(@, [document_name |-> row.document_name,
                              number_of_bookmarks |-> row.number_of_bookmarks,
                              bookmarks_replaced |-> Join(bookmarks_replaced, <<";">>),
                              json |-> Join(json_used, <<";">>)])]
    /\ row_i' = row_i + 1
    /\ UNCHANGED << pc, mainVars, tally_file, dictionary, bookmark_docx, bookmark_to_token,
                    pairs >>

\* Document(doc_path) or doc.save raises inside apply_data_dict_to_doc:
\* nothing catches it, main() ends with the final tally as far as written.
TokRowFail ==
    /\ pc = "tok_loop"
    /\ row_i <= Len(tally_file.rows)
    /\ DocxAt(tally_file.rows[row_i][detect_filename_column(tally_file.fieldnames)]) # {}
    /\ pc' = "tok_crash"
    /\ UNCHANGED << mainVars, writes, tokVars >>

\* The loop is over: both files are closed, main() prints and returns.
TokEnd ==
    /\ pc = "tok_loop"
    /\ row_i > Len(tally_file.rows)
    /\ pc' = "tok_done"
    /\ UNCHANGED << mainVars, writes, tokVars >>

\* The pairs create_main_docx.py adds for one row of the final tally.
RowPairs(row) ==
    LET bookmarks == SplitOn(row.bookmarks_replaced, ";")
        jsons == SplitOn(row.json, ";")
    IN  IF row.bookmarks_replaced # <<>> /\ row.json # <<>> /\ Len(bookmarks) = Len(jsons)
        THEN {<<Strip(bookmarks[i]), Strip(jsons[i])>> : i \in 1..Len(bookmarks)}
        ELSE {}

\* create_main_docx.py, run on the final tally: the set of pairs, and the
\* table of Main.docx with a row per pair.
Master ==
    /\ pc \in {"tok_done", "tok_crash"}
    /\ pairs' = UNION {RowPairs(final_tally.rows[i]) : i \in 1..Len(final_tally.rows)}
    /\ writes' = Append(writes, [file |-> "main_docx", name |-> <<>>, rows |-> <<>>])
    /\ pc' = "master_done"
    /\ UNCHANGED << mainVars, tally_file, dictionary, bookmark_docx, bookmark_to_token,
                    row_i, final_tally >>

NextTok ==
    \/ TokLoad
    \/ TokOpenTally
    \/ TokRow
    \/ TokRowFail
    \/ TokEnd
    \/ Master

\* ---------------------------------------------------- token stage inputs
\* Cells of the "Bookmark Name" and "Json Path" columns.
BookmarkCells == { <<"A">>, <<"B">>, <<" ", "B", " ">>, NaN }
JsonCells ==
    { <<"y">>, <<"z">>, <<"{", "{", "y", "}", "}">>, <<"{", "{", "y">>, <<"y", "}", "}">>,
      <<" ", "z", " ">>, <<" ">>, <<"{", "{", "}">>, NaN }

Dictionary(status, rows) == [status |-> status, rows |-> rows]
DictRow(bookmark, json) == [bookmark |-> bookmark, json |-> json]

\* The spreadsheets of up to MaxRows rows.
Dictionaries ==
    {Dictionary("ok", rows) :
       rows \in SeqsUpTo({DictRow(b, j) : b \in BookmarkCells, j \in JsonCells}, MaxRows)}

\* The tally as write_tally leaves it.
TallyHeader == <<"document_name", "number_of_bookmarks">>
Tally(status, fieldnames, names) ==
    [status |-> status, fieldnames |-> fieldnames,
     rows |-> [i \in 1..Len(names) |-> [document_name |-> names[i], number_of_bookmarks |-> 1]]]

Docx(name, texts) == [name |-> name, texts |-> texts]
Doc1Name == OutputFilename(StemPlain)
Doc2Name == OutputFilename(<<"a", " ", "b">>)

\* The tally and the documents of output/bookmarks: one document whose runs
\* read A and B; two rows, the first document with both names in one run
\* and the second missing; no row.
TallyCases ==
    { [tally |-> Tally("ok", TallyHeader, <<Doc1Name>>),
       docs |-> {Docx(Doc1Name, << <<"A">>, <<"B">> >>)}],
      [tally |-> Tally("ok", TallyHeader, <<Doc1Name, Doc2Name>>),
       docs |-> {Docx(Doc1Name, << <<"x", "A", "B", "A">>, <<"x">> >>)}],
      [tally |-> Tally("ok", TallyHeader, <<>>), docs |-> {}] }

\* The runs that stop in setup: each missing file and each missing column.
TokSetupFailures ==
    LET docs == {Docx(Doc1Name, << <<"A">> >>)}
        rows == <<DictRow(<<"A">>, <<"y">>)>>
    IN  {[tally |-> Tally("missing", <<>>, <<>>), dict |-> Dictionary("ok", rows), docs |-> docs],
         [tally |-> Tally("ok", <<>>, <<>>), dict |-> Dictionary("ok", rows), docs |-> docs]}
          \cup {[tally |-> Tally("ok", TallyHeader, <<Doc1Name>>), dict |-> Dictionary(st, rows),
                 docs |-> docs] : st \in {"missing", "nobookmark", "nojson"}}

\* The state a token-stage run starts in: main.py is not running.
InitTokWith(tally, dict, docs) ==
    /\ pc = "tok_start"
    /\ excel = Excel("ok", {})
    /\ paths = <<>>
    /\ path_i = 1
    /\ valid_bookmarks = {}
    /\ doc = NoDoc
    /\ bookmarks_to_process = <<>>
    /\ bkm_i = 1
    /\ bookmark_count = 0
    /\ split_ret = FALSE
    /\ calls = <<>>
    /\ unique_bookmarks = {}
    /\ tally_rows = <<>>
    /\ writes = <<>>
    /\ log = <<>>
    /\ TokInitWith(tally, dict, docs)

InitTok ==
    \/ \E d \in Dictionaries : \E c \in TallyCases : InitTokWith(c.tally, d, c.docs)
    \/ \E f \in TokSetupFailures : InitTokWith(f.tally, f.dict, f.docs)

SpecTok == InitTok /\ [][NextTok]_vars

\* Runs of either program, for what holds of both.
InitSetup == InitRun \/ InitTok

NextSetup == Next \/ NextTok

SpecSetup == InitSetup /\ [][NextSetup]_vars

\* ------------------------------------------------------- reading a tree
\* The bookmark of the current loop iteration and the input of the document.
Cur == bookmarks_to_process[bkm_i]
InputDoc == paths[path_i].doc

\* The elements of the tree rooted at the body, in document order.
InTree(d) == Iter(d, Body)
Attached(d, n) == InSeq(n, InTree(d))

\* The attached end marker that carries the identifier of start marker s: 0
\* when s has no identifier or no attached end marker has it.
EndOf(d, s) ==
    IF d[s].id = 0 THEN 0
    ELSE IF \E n \in Range(InTree(d)) : d[n].kind = "bookmarkEnd" /\ d[n].id = d[s].id
    THEN LET order == InTree(d)
             at == CHOOSE i \in 1..Len(order) :
                     /\ d[order[i]].kind = "bookmarkEnd" /\ d[order[i]].id = d[s].id
                     /\ \A j \in 1..(i - 1) :
                          ~(d[order[j]].kind = "bookmarkEnd" /\ d[order[j]].id = d[s].id)
         IN  order[at]
    ELSE 0

\* What an element shows: its tag, text and bookmark attributes.
Shown(d, n) == [kind |-> d[n].kind, text |-> d[n].text, name |-> d[n].name, id |-> d[n].id]

\* The content at the location of the bookmark with start marker s: whether
\* the marker is in the tree, whether it has a span (an end marker after it),
\* and what stands between the two markers in document order (formatting
\* nodes left out).
Content(d, s) ==
    LET order == InTree(d)
        e == EndOf(d, s)
        ps == IndexOf(order, s)
        pe == IndexOf(order, e)
        hasSpan == ps > 0 /\ e # 0 /\ pe > ps
        inner == IF hasSpan THEN SubSeq(order, ps + 1, pe - 1) ELSE <<>>
        content == SelectSeq(inner, LAMBDA x : d[x].kind # "pPr")
    IN  [attached |-> ps > 0, span |-> hasSpan,
         shows |-> [i \in 1..Len(content) |-> Shown(d, content[i])]]

\* The positions in document order a bookmark of the input occupies: from
\* its start marker to its end marker (the start marker alone without one).
Span(d, s) ==
    LET order == InTree(d)
        ps == IndexOf(order, s)
        pe == IndexOf(order, EndOf(d, s))
    IN  IF pe > ps THEN ps..pe ELSE {ps}

\* The filter as the specification states it.
Eligible(name, valid) ==
    /\ name \in valid
    /\ ~(\/ StartsWith(Lower(name), <<"t", "e", "x", "t">>)
         \/ StartsWith(Lower(name), <<"c", "h", "e", "c", "k">>))

\* The run a successful replacement leaves: a text run reading `name`.
IsNameRun(d, n, name) == d[n].kind = "r" /\ d[n].text = name /\ d[n].kids = <<>>

\* Start marker s, one run reading name, and the end marker of s stand next
\* to each other in this order in one child list.
Replaced(d, s, name) ==
    LET parent == getparent(d, s)
        kids == d[parent].kids
        i == IndexOf(kids, s)
    IN  /\ Attached(d, s)
        /\ i + 2 <= Len(kids)
        /\ IsNameRun(d, kids[i + 1], name)
        /\ kids[i + 2] = EndOf(d, s)

InputStarts == {n \in Range(InTree(InputDoc)) : InputDoc[n].kind = "bookmarkStart"}

\* The start markers of the input the filter lets through.
EligibleStarts ==
    {n \in InputStarts :
       InputDoc[n].name # <<>> /\ Eligible(InputDoc[n].name, valid_bookmarks)}

\* C2 as stated: for every bookmark the filter rejects, the content at its
\* location after process_document is the content of the input, whatever
\* other bookmarks the document holds.
C2_AsClaimed ==
    pc = "return" =>
        \A u \in InputStarts \ EligibleStarts : Content(doc, u) = Content(InputDoc, u)

\* C2 (amended): for every bookmark the filter rejects and whose span (start
\* marker to end marker in document order) shares no position with the span
\* of a bookmark the filter lets through, the content at its location after
\* process_document is the content of the input.
C2_IneligibleUnchanged ==
    pc = "return" =>
        \A u \in InputStarts \ EligibleStarts :
            (\A a \in EligibleStarts : Span(InputDoc, u) \cap Span(InputDoc, a) = {})
                => Content(doc, u) = Content(InputDoc, u)

\* A rejected bookmark with content stands beside a bookmark that was split
\* off and replaced.
C2_Witness ==
    /\ pc = "return"
    /\ \E i \in 1..Len(calls) : calls[i].replaced /\ calls[i].split
    /\ \E u \in InputStarts \ EligibleStarts :
          /\ Content(InputDoc, u).shows # <<>>
          /\ \A a \in EligibleStarts : Span(InputDoc, u) \cap Span(InputDoc, a) = {}

\* ------------------------------------------------------------------- C3
\* The end marker of s is in the tree and has another parent than s.
CrossParent(d, s) == EndOf(d, s) # 0 /\ getparent(d, s) # getparent(d, EndOf(d, s))

\* The step of replace_bookmark_range_with_text(doc, bkm, name) was taken.
ReplaceCalled == pc = "replace" /\ pc' = "filter"

\* C3: replace_bookmark_range_with_text on a start marker whose matching end
\* marker has a different parent returns failure and leaves the whole tree
\* as it was.
C3_CrossParentSkipped ==
    [][(ReplaceCalled /\ CrossParent(doc, Cur.bkm)) =>
          /\ doc' = doc
          /\ ~calls'[Len(calls')].replaced
          /\ bookmark_count' = bookmark_count]_vars

\* A replacement was just refused for a start marker that is in the tree and
\* whose end marker sits in another child list.
C3_Witness ==
    /\ pc = "filter"
    /\ calls # <<>>
    /\ LET c == calls[Len(calls)]
       IN  /\ c.eligible /\ ~c.replaced
           /\ Attached(doc, c.bkm)
           /\ CrossParent(doc, c.bkm)

\* ------------------------------------------------------------------- C4
\* C4: replace_bookmark_range_with_text on a start marker without identifier,
\* or whose identifier no end marker of the body carries, returns failure and
\* changes nothing, and the loop goes on: every bookmark of the snapshot has
\* been visited when the document is saved.
C4_UnmatchedSkipped ==
    [][/\ (ReplaceCalled /\ EndOf(doc, Cur.bkm) = 0) =>
             /\ doc' = doc
             /\ ~calls'[Len(calls')].replaced
             /\ bookmark_count' = bookmark_count
             /\ bkm_i' = bkm_i + 1
       /\ pc' = "return" =>
             /\ Len(calls') = Len(bookmarks_to_process')
             /\ \A i \in 1..Len(calls') : calls'[i].bkm = bookmarks_to_process'[i].bkm]_vars

\* After a refused replacement of a bookmark without matching end marker a
\* later bookmark of the same snapshot was replaced.
C4_Witness ==
    /\ pc = "filter"
    /\ \E i, j \in 1..Len(calls) :
          /\ i < j
          /\ calls[i].eligible /\ ~calls[i].replaced
          /\ Attached(doc, calls[i].bkm) /\ EndOf(doc, calls[i].bkm) = 0
          /\ calls[j].replaced

\* ------------------------------------------------------------------- C5
\* The children of a paragraph after an optional leading w:pPr.
FirstMovable(d, p) ==
    IF d[p].kids # <<>> /\ d[d[p].kids[1]].kind = "pPr" THEN 2 ELSE 1
Movable(d, p) == SubSeq(d[p].kids, FirstMovable(d, p), Len(d[p].kids))

\* Marker s is a direct child of its paragraph with at least one movable
\* sibling before it.
HasPrefix(d, s) ==
    LET p == get_paragraph_element(d, s)
    IN  /\ p # 0
        /\ InSeq(s, d[p].kids)
        /\ IndexOf(d[p].kids, s) > FirstMovable(d, p)

\* What C5 says of the tree d2 after a split of tree d at marker s.
SplitDone(d, d2, s) ==
    LET p == get_paragraph_element(d, s)
        parent == getparent(d, p)
        before == Movable(d, p)
        i == IndexOf(before, s)
        siblings == d2[parent].kids
        j == IndexOf(siblings, p)
        new_p == siblings[j - 1]
    IN  /\ j > 1
        /\ new_p > Len(d)
        /\ d2[new_p].kind = "p"
        /\ SelectSeq(siblings, LAMBDA x : x # new_p) = d[parent].kids
        /\ Movable(d2, new_p) = SubSeq(before, 1, i - 1)
        /\ Movable(d2, p) = SubSeq(before, i, Len(before))
        /\ FirstMovable(d, p) = 2 =>
              /\ d2[p].kids[1] = d[p].kids[1]
              /\ d2[new_p].kids[1] > Len(d)
              /\ d2[d2[new_p].kids[1]].kind = "pPr"
              /\ d2[d2[new_p].kids[1]].before = d[d[p].kids[1]].before
        /\ \A n \in 1..Len(d) : n \notin {p, parent} => d2[n].kids = d[n].kids

\* The step of split_paragraph_before_bookmark(bkm) was taken.
SplitCalled == pc = "split" /\ pc' = "replace"

\* C5 as stated: called on a marker that is a direct child of its paragraph
\* with k >= 1 movable siblings before it, the split returns true and leaves
\* a new paragraph with exactly those siblings right before the original.
C5_AsClaimed ==
    [][(SplitCalled /\ HasPrefix(doc, Cur.bkm)) =>
          (split_ret' /\ SplitDone(doc, doc', Cur.bkm))]_vars

\* C5 (amended): called on a marker that is a direct child of its paragraph
\* with k >= 1 movable siblings before it, where the paragraph has a parent,
\* the split returns true; a new paragraph is the sibling right before the
\* original; its children after its properties node (a copy of the
\* original's, if that had one) are exactly those k siblings in order; the
\* original keeps its properties node, the marker and all that follows.
C5_SplitMovesPrefix ==
    [][(/\ SplitCalled
        /\ HasPrefix(doc, Cur.bkm)
        /\ getparent(doc, get_paragraph_element(doc, Cur.bkm)) # 0) =>
          (split_ret' /\ SplitDone(doc, doc', Cur.bkm))]_vars

\* A split just moved two siblings out of a paragraph that starts with a
\* properties node.
C5_Witness ==
    /\ pc = "replace"
    /\ split_ret
    /\ LET p == get_paragraph_element(doc, Cur.bkm)
           siblings == doc[getparent(doc, p)].kids
           new_p == siblings[IndexOf(siblings, p) - 1]
       IN  /\ Len(Movable(doc, new_p)) = 2
           /\ doc[new_p].kids[1] # doc[p].kids[1]
           /\ InputDoc[p].kids # <<>>
           /\ InputDoc[InputDoc[p].kids[1]].kind = "pPr"

\* ------------------------------------------------------------------- C6
\* Marker s is the first movable child of its paragraph.
IsFirstMovable(d, s) ==
    LET p == get_paragraph_element(d, s)
    IN  /\ p # 0
        /\ InSeq(s, d[p].kids)
        /\ IndexOf(d[p].kids, s) = FirstMovable(d, p)

\* C6: called on a marker that is the first movable child of its paragraph
\* (position 0, or 1 after a leading properties node), the split returns
\* false and leaves every child list as it was.
C6_FirstMovableNoSplit ==
    [][(SplitCalled /\ IsFirstMovable(doc, Cur.bkm)) => (~split_ret' /\ doc' = doc)]_vars

\* A split was just declined for a marker standing right after the
\* properties node of a paragraph that is in the tree.
C6_Witness ==
    /\ pc = "replace"
    /\ ~split_ret
    /\ IsFirstMovable(doc, Cur.bkm)
    /\ Attached(doc, Cur.bkm)
    /\ FirstMovable(doc, get_paragraph_element(doc, Cur.bkm)) = 2

\* ------------------------------------------------------------------- C7
\* The two tests with the membership test first.
MemberFirst(name, valid) ==
    IF name \notin valid THEN FALSE
    ELSE IF StartsWith(Lower(name), <<"t", "e", "x", "t">>) THEN FALSE
    ELSE IF StartsWith(Lower(name), <<"c", "h", "e", "c", "k">>) THEN FALSE
    ELSE TRUE

\* The two tests with the prefix test first.
PrefixTestFirst(name, valid) ==
    IF StartsWith(Lower(name), <<"t", "e", "x", "t">>) THEN FALSE
    ELSE IF StartsWith(Lower(name), <<"c", "h", "e", "c", "k">>) THEN FALSE
    ELSE IF name \notin valid THEN FALSE
    ELSE TRUE

\* C7: the loop of process_document lets a bookmark through to the split
\* exactly when its name is an exact member of the approved set and its
\* lowercased name starts with neither "text" nor "check"; testing the
\* prefix before or after the membership gives the same result.
C7_FilterIsConjunction ==
    [][(pc = "filter" /\ bkm_i <= Len(bookmarks_to_process)) =>
          /\ (pc' = "split") = Eligible(Cur.name, valid_bookmarks)
          /\ (pc' = "split") = MemberFirst(Cur.name, valid_bookmarks)
          /\ (pc' = "split") = PrefixTestFirst(Cur.name, valid_bookmarks)]_vars

\* The filter just rejected an approved name for its prefix in capitals, in
\* a run whose approved set also holds a name differing only in case.
C7_Witness ==
    /\ pc = "filter"
    /\ calls # <<>>
    /\ ~calls[Len(calls)].eligible
    /\ calls[Len(calls)].name = <<"C", "H", "E", "C", "K">>
    /\ calls[Len(calls)].name \in valid_bookmarks
    /\ LowerChildName \in valid_bookmarks

\* ------------------------------------------------------------------- C8
\* The console lines name the paths 1..n in order.
LoggedInOrder(n) == Len(log) = n /\ \A i \in 1..n : log[i].path = i

\* C8: an error raised while a document is processed never aborts the batch:
\* the except clause hands control back to the loop at the next document,
\* main() is left early by a setup failure only, the loop can open every
\* document that is left and then take the end-of-run step, and that step
\* finds every document handled in discovery order.
C8_ErrorsDoNotAbort ==
    /\ [][/\ pc = "except" => (pc' = "loop" /\ path_i' = path_i + 1)
          /\ pc' = "fatal" => pc = "start"
          /\ (pc = "loop" /\ pc' = "done") => LoggedInOrder(Len(paths))]_vars
    /\ [](pc = "except" => ENABLED Except)
    /\ [](pc = "loop" => IF path_i <= Len(paths) THEN ENABLED Open ELSE ENABLED Flush)

\* A run ended in which a document failed and a later one was processed.
C8_Witness ==
    /\ pc = "done"
    /\ \E i, j \in 1..Len(log) :
          i < j /\ log[i].line = "ERROR" /\ log[j].line = "Processed"

\* ------------------------------------------------------------------- C9
\* The documents written by doc.save, in order.
SavedNames ==
    LET saves == SelectSeq(writes, LAMBDA w : w.file = "docx")
    IN  [k \in 1..Len(saves) |-> saves[k].name]

\* C9: at the end of a run the tally rows are the documents that were saved,
\* one row each, in discovery order; a document that ended in an error has
\* no row.
C9_TallyIsSavedDocs ==
    pc = "done" =>
        LET processed == SelectSeq(log, LAMBDA l : l.line = "Processed")
        IN  /\ Len(tally_rows) = Len(processed)
            /\ [k \in 1..Len(tally_rows) |-> tally_rows[k].document_name] = SavedNames
            /\ \A k \in 1..Len(processed) :
                  tally_rows[k].document_name = OutputFilename(paths[processed[k].path].stem)
            /\ \A k, l \in 1..Len(processed) : k < l => processed[k].path < processed[l].path

\* A run ended with two rows of different names.
C9_Witness ==
    /\ pc = "done"
    /\ Len(tally_rows) = 2
    /\ tally_rows[1].document_name # tally_rows[2].document_name

\* ------------------------------------------------------------------ C10
\* The iterations of this document that passed the filter and whose
\* replacement returned success.
Successes == {i \in 1..Len(calls) : calls[i].eligible /\ calls[i].replaced}

\* C10: the count process_document returns is the number of bookmarks of the
\* snapshot that pass the filter and whose replacement reports success;
\* rejected bookmarks and failed replacements never raise it.
C10_CountIsSuccesses ==
    /\ pc = "return" =>
          /\ Len(calls) = Len(bookmarks_to_process)
          /\ \A i \in 1..Len(calls) :
                /\ calls[i].bkm = bookmarks_to_process[i].bkm
                /\ calls[i].eligible = Eligible(calls[i].name, valid_bookmarks)
                /\ calls[i].replaced => calls[i].eligible
          /\ bookmark_count = Cardinality(Successes)
    /\ (pc \in {"loop", "done"} /\ log # <<>> /\ log[Len(log)].line = "Processed") =>
          tally_rows[Len(tally_rows)].number_of_bookmarks = Cardinality(Successes)

\* Approved set {ChildName}, bookmarks TextBox1, ChildName, Unrelated: the
\* document returned with count 1.
C10_Witness ==
    /\ pc = "return"
    /\ valid_bookmarks = {ChildName}
    /\ [i \in 1..Len(bookmarks_to_process) |-> bookmarks_to_process[i].name]
         = <<TextBox1, ChildName, Unrelated>>
    /\ bookmark_count = 1

\* ------------------------------------------------------------------ C11
\* Names whose normalized forms coincide ("e_acute" and "e"), vanish
\* ("sharp_s") or differ.
UniqueNames == { <<"e">>, <<"e_acute">>, <<"sharp_s">>, <<"B">>, <<"a">> }
UniqueApproved == { <<"e_acute">>, <<"sharp_s">>, <<"B">>, <<"a">> }

\* Batch runs over documents of one bookmark each, every name against every
\* approved set.
UniqueInputs ==
    {Input(Excel("ok", column), fs) :
       column \in SUBSET UniqueApproved,
       fs \in SeqsUpTo({File(StemPlain, DocNamed(name)) : name \in UniqueNames}, MaxDocs)}

InitUnique == InitFrom(UniqueInputs)

SpecUnique == InitUnique /\ [][Next]_vars

\* The names of the bookmarks of the i-th input file that the filter lets
\* through, and of those it rejects.
PassedNames(i) ==
    {b.name : b \in {x \in Range(iter_bookmark_starts(paths[i].doc)) :
                        Eligible(x.name, valid_bookmarks)}}
RejectedNames(i) ==
    {b.name : b \in {x \in Range(iter_bookmark_starts(paths[i].doc)) :
                        ~Eligible(x.name, valid_bookmarks)}}

\* The input files whose processing printed "Processed".
ProcessedPaths == {log[k].path : k \in {j \in 1..Len(log) : log[j].line = "Processed"}}

\* The unique-bookmarks files written so far and the names of one's rows.
UniqueWrites == {k \in 1..Len(writes) : writes[k].file = "unique"}
RowNames(w) == {w.rows[k].bookmark_name : k \in 1..Len(w.rows)}

\* C11 as claimed: a row for the normalized name of every bookmark that
\* passed the filter, and no row carrying the name of a filtered-out
\* bookmark.
C11_AsClaimed ==
    pc = "done" =>
        \A k \in UniqueWrites :
            /\ \A i \in ProcessedPaths : \A n \in PassedNames(i) :
                  normalize_bookmark_name(n) \in RowNames(writes[k])
            /\ \A i \in ProcessedPaths : \A n \in RejectedNames(i) :
                  n \notin RowNames(writes[k])

\* C11: the unique-bookmarks output has exactly one row per distinct
\* non-empty normalized name of the bookmarks that passed the filter, in
\* ascending order, each with an empty second column; a bookmark that did
\* not pass adds no name (its name is in the output only when it is the
\* normalized name of a bookmark that passed).
C11_UniqueRows ==
    /\ [][unique_bookmarks' =
            unique_bookmarks \cup
              (IF pc = "filter" /\ bkm_i <= Len(bookmarks_to_process)
                    /\ Eligible(Cur.name, valid_bookmarks)
               THEN {normalize_bookmark_name(Cur.name)} \ {<<>>}
               ELSE {})]_vars
    /\ [](pc = "done" =>
            \A k \in UniqueWrites :
               LET rows == writes[k].rows
               IN  /\ RowNames(writes[k]) = unique_bookmarks
                   /\ <<>> \notin RowNames(writes[k])
                   /\ \A i \in 1..Len(rows) : rows[i].json = <<>>
                   /\ \A i \in 1..(Len(rows) - 1) :
                         StrLess(rows[i].bookmark_name, rows[i + 1].bookmark_name)
                   /\ \A i \in ProcessedPaths : \A n \in PassedNames(i) :
                         normalize_bookmark_name(n) # <<>> =>
                            normalize_bookmark_name(n) \in RowNames(writes[k])
                   /\ \A n \in RowNames(writes[k]) :
                         \E i \in 1..Len(paths) : \E m \in PassedNames(i) :
                            normalize_bookmark_name(m) = n)

\* A run of two documents ended with two rows, one of them the name of a
\* bookmark whose non-ASCII letter was normalized.
C11_Witness ==
    /\ pc = "done"
    /\ \E k \in UniqueWrites :
          /\ Len(writes[k].rows) = 2
          /\ <<"e">> \in RowNames(writes[k])
          /\ <<"e_acute">> \in PassedNames(1) \cup PassedNames(2)

\* ------------------------------------------------------------------ C12
\* The document is one paragraph whose children, after an optional
\* properties node, are one or more text runs, the start marker of an approved
\* bookmark and its end marker, and nothing else.
PrefixScenario(d) ==
    /\ Len(d[Body].kids) = 1
    /\ LET p == d[Body].kids[1]
           kids == IF d[p].kind = "p" THEN Movable(d, p) ELSE <<>>
           n == Len(kids)
       IN  /\ d[p].kind = "p"
           /\ n >= 3
           /\ \A i \in 1..(n - 2) : d[kids[i]].kind = "r" /\ d[kids[i]].kids = <<>>
           /\ d[kids[n - 1]].kind = "bookmarkStart"
           /\ d[kids[n]].kind = "bookmarkEnd"
           /\ d[kids[n - 1]].id # 0
           /\ d[kids[n]].id = d[kids[n - 1]].id
           /\ Eligible(d[kids[n - 1]].name, valid_bookmarks)

\* The paragraphs of a tree in document order, and the texts of the runs of
\* a paragraph.
Paragraphs(d) == IterTag(d, Body, "p")
TextsOf(d, p) ==
    LET runs == IterTag(d, p, "r")
    IN  [i \in 1..Len(runs) |-> d[runs[i]].text]

\* C12: a document of one paragraph [prefix][start of an approved
\* bookmark][end] comes out of process_document as exactly two paragraphs:
\* the first holds the prefix content and nothing else, the second has the
\* bookmark's name as its only text.
C12_PrefixScenarioTwoParagraphs ==
    (pc = "return" /\ PrefixScenario(InputDoc)) =>
        LET p == InputDoc[Body].kids[1]
            kids == Movable(InputDoc, p)
            prefix == SubSeq(kids, 1, Len(kids) - 2)
            start == kids[Len(kids) - 1]
            paras == Paragraphs(doc)
        IN  /\ Len(paras) = 2
            /\ doc[Body].kids = paras
            /\ paras[2] = p
            /\ Movable(doc, paras[1]) = prefix
            /\ TextsOf(doc, paras[1]) = [i \in 1..Len(prefix) |-> InputDoc[prefix[i]].text]
            /\ TextsOf(doc, p) = <<InputDoc[start].name>>
            /\ bookmark_count = 1

\* The scenario came out with a prefix of two runs, from a paragraph that
\* has a properties node.
C12_Witness ==
    /\ pc = "return"
    /\ PrefixScenario(InputDoc)
    /\ FirstMovable(InputDoc, InputDoc[Body].kids[1]) = 2
    /\ Len(Paragraphs(doc)) = 2
    /\ Len(TextsOf(doc, Paragraphs(doc)[1])) = 2
    /\ TextsOf(doc, Paragraphs(doc)[2]) = <<ChildName>>

\* ------------------------------------------------------------------ C13
\* The CSV files written so far, by kind.
CsvWrites(ws, kind) == {k \in 1..Len(ws) : ws[k].file = kind}

\* C13 as claimed: every run that passes setup ends with the tally and the
\* unique names written exactly once each.
C13_AsClaimed ==
    pc = "done" =>
        /\ Cardinality(CsvWrites(writes, "tally")) = 1
        /\ Cardinality(CsvWrites(writes, "unique")) = 1

\* C13: the tally and the unique names are written only in the step that
\* ends the run, after the last document has been handled, never earlier;
\* a run in which at least one document succeeded writes each exactly once
\* (the tally first), and a run in which none did (no document found, or all
\* failed) writes neither.
C13_WrittenOnceAtEnd ==
    /\ [][(\E kind \in {"tally", "unique"} : CsvWrites(writes', kind) # CsvWrites(writes, kind))
            => (pc = "loop" /\ path_i > Len(paths) /\ pc' = "done")]_vars
    /\ [](pc # "done" =>
            CsvWrites(writes, "tally") = {} /\ CsvWrites(writes, "unique") = {})
    /\ [](pc = "done" =>
            IF tally_rows # <<>>
            THEN /\ Cardinality(CsvWrites(writes, "tally")) = 1
                 /\ Cardinality(CsvWrites(writes, "unique")) = 1
                 /\ \A i \in CsvWrites(writes, "tally") : \A j \in CsvWrites(writes, "unique") :
                       /\ j = i + 1
                       /\ j = Len(writes)
                       /\ writes[i].rows = tally_rows
            ELSE CsvWrites(writes, "tally") = {} /\ CsvWrites(writes, "unique") = {})

\* A run of two documents, one failed and one saved, ended with both files
\* written.
C13_Witness ==
    /\ pc = "done"
    /\ Len(paths) = 2
    /\ Len(tally_rows) = 1
    /\ Cardinality(CsvWrites(writes, "tally")) = 1
    /\ Cardinality(CsvWrites(writes, "unique")) = 1

\* ------------------------------------------------------------------ C14
\* Setup fails: for main.py the spreadsheet is missing or lacks the
\* "Bookmark Name" column; for the token stage the tally file or the
\* spreadsheet is missing, or the spreadsheet lacks one of its two columns.
MainSetupFailure == excel.status \in {"missing", "nocolumn"}
TokSetupFailure ==
    \/ tally_file.status = "missing"
    \/ dictionary.status \in {"missing", "nobookmark", "nojson"}

\* Nothing was opened and nothing was written.
NothingDone ==
    /\ writes = <<>>
    /\ ~final_tally.exists
    /\ doc = NoDoc
    /\ calls = <<>>
    /\ log = <<>>
    /\ tally_rows = <<>>
    /\ path_i = 1
    /\ row_i = 1

\* C14: when setup fails the run stops with an error before any document is
\* opened, and no output document or CSV has been written.
C14_SetupFailureStops ==
    /\ [][(pc = "start" /\ MainSetupFailure) => pc' = "fatal"]_vars
    /\ [][(pc = "tok_start" /\ TokSetupFailure) => pc' = "tok_fatal"]_vars
    /\ []((pc \in {"start", "fatal"} /\ MainSetupFailure) => NothingDone)
    /\ []((pc \in {"tok_start", "tok_fatal"} /\ TokSetupFailure) => NothingDone)
    /\ [](pc \in {"fatal", "tok_fatal"} => (NothingDone /\ ~ENABLED NextSetup))

\* The token stage stopped for want of the "Json Path" column although the
\* tally has a row and its document is there.
C14_Witness ==
    /\ pc = "tok_fatal"
    /\ dictionary.status = "nojson"
    /\ tally_file.rows # <<>>
    /\ bookmark_docx # {}

\* ------------------------------------------------------------------ C15
\* The token of a trimmed value as the claim words it.
Wrapped(v) ==
    IF /\ Len(v) >= 2
       /\ v[1] = "{" /\ v[2] = "{"
       /\ v[Len(v) - 1] = "}" /\ v[Len(v)] = "}"
    THEN v
    ELSE <<"{", "{">> \o v \o <<"}", "}">>

\* The rows of the spreadsheet that load_data_dictionary does not skip.
ValidRows ==
    {k \in 1..Len(dictionary.rows) :
        /\ dictionary.rows[k].bookmark # NaN /\ dictionary.rows[k].json # NaN
        /\ Strip(dictionary.rows[k].bookmark) # <<>>
        /\ Strip(dictionary.rows[k].json) # <<>>}

\* Row k is the last valid row for its bookmark.
LastFor(k) ==
    \A l \in ValidRows :
        Strip(dictionary.rows[l].bookmark) = Strip(dictionary.rows[k].bookmark) => l <= k

MappingLoaded == pc \in {"tok_tally", "tok_loop", "tok_done", "tok_crash", "master_done"}

\* C15: for every non-empty trimmed "Json Path" value v the derived token is
\* v itself when v starts with "{{" and ends with "}}", and "{{" + v + "}}"
\* otherwise; deriving a token from a derived token gives it back.
C15_TokenWrapping ==
    MappingLoaded =>
        /\ \A k \in ValidRows :
              LastFor(k) =>
                 \E i \in 1..Len(bookmark_to_token) :
                    /\ bookmark_to_token[i].bookmark = Strip(dictionary.rows[k].bookmark)
                    /\ bookmark_to_token[i].token = Wrapped(Strip(dictionary.rows[k].json))
        /\ \A i \in 1..Len(bookmark_to_token) :
              /\ \E k \in ValidRows :
                    bookmark_to_token[i] =
                       [bookmark |-> Strip(dictionary.rows[k].bookmark),
                        token |-> Wrapped(Strip(dictionary.rows[k].json))]
              /\ Strip(bookmark_to_token[i].token) = bookmark_to_token[i].token
              /\ Token(bookmark_to_token[i].token) = bookmark_to_token[i].token
              /\ Wrapped(bookmark_to_token[i].token) = bookmark_to_token[i].token

\* A spreadsheet gave one token taken verbatim and one wrapped after
\* trimming.
C15_Witness ==
    /\ MappingLoaded
    /\ dictionary.rows = <<DictRow(<<"A">>, <<"{", "{", "y", "}", "}">>),
                           DictRow(<<"B">>, <<" ", "z", " ">>)>>
    /\ bookmark_to_token = << [bookmark |-> <<"A">>, token |-> <<"{", "{", "y", "}", "}">>],
                              [bookmark |-> <<"B">>, token |-> <<"{", "{", "z", "}", "}">>] >>

SpacingOf(d, q) ==
    LET pPr == FindPPr(d, q)
    IN  IF pPr = 0 THEN [before |-> "unset", after |-> "unset"]
        ELSE [before |-> d[pPr].before, after |-> d[pPr].after]

\* The paragraphs among the elements of d, in the tree or not.
AllParagraphs(d) == {q \in 1..Len(d) : d[q].kind = "p"}

\* C17: after a successful split the new paragraph's trailing spacing is 0
\* and the original's leading spacing is 0; the new paragraph's leading
\* spacing is the original's before the split, the original's trailing
\* spacing is unchanged, and no other paragraph's spacing changes; when the
\* split returns false no spacing changes.
C17_SplitSpacing ==
    [][SplitCalled =>
          IF split_ret'
          THEN LET p == get_paragraph_element(doc, Cur.bkm)
                   siblings == doc'[getparent(doc', p)].kids
                   new_p == siblings[IndexOf(siblings, p) - 1]
               IN  /\ new_p \notin AllParagraphs(doc)
                   /\ new_p \in AllParagraphs(doc')
                   /\ SpacingOf(doc', new_p).after = "0"
                   /\ SpacingOf(doc', p).before = "0"
                   /\ SpacingOf(doc', new_p).before = SpacingOf(doc, p).before
                   /\ SpacingOf(doc', p).after = SpacingOf(doc, p).after
                   /\ AllParagraphs(doc') = AllParagraphs(doc) \cup {new_p}
                   /\ \A q \in AllParagraphs(doc) \ {p} : SpacingOf(doc', q) = SpacingOf(doc, q)
          ELSE /\ AllParagraphs(doc') = AllParagraphs(doc)
               /\ \A q \in AllParagraphs(doc) : SpacingOf(doc', q) = SpacingOf(doc, q)]_vars

\* The second split of a paragraph with spacing 120/240 was just made: the
\* first new paragraph still has 120/0, the second new one 0/0 (the leading
\* spacing the original had by then), the original 0/240.
C17_Witness ==
    /\ pc = "replace"
    /\ split_ret
    /\ Len(Paragraphs(doc)) = 3
    /\ SpacingOf(doc, Paragraphs(doc)[1]) = [before |-> "120", after |-> "0"]
    /\ SpacingOf(doc, Paragraphs(doc)[2]) = [before |-> "0", after |-> "0"]
    /\ SpacingOf(doc, Paragraphs(doc)[3]) = [before |-> "0", after |-> "240"]
    /\ Paragraphs(doc)[3] = get_paragraph_element(doc, Cur.bkm)

\* ------------------------------------------------------------------ C18
\* The document as saved: the elements reachable from the body.
TreeView(d) == [n \in Range(InTree(d)) |-> d[n]]

\* The bookmark of this iteration passed the filter and its start marker is
\* no longer in the tree (every start marker of the snapshot was in the tree
\* when the document was opened).
DetachedStart == ~Attached(doc, Cur.bkm)

MappingPairs ==
    {<<bookmark_to_token[i].bookmark, bookmark_to_token[i].token>> :
        i \in 1..Len(bookmark_to_token)}

\* C19: every (label, path) pair the master-document stage builds from the
\* rows of the final tally is a pair of the spreadsheet mapping.
C19_PairsAreMappingPairs ==
    pc = "master_done" => pairs \subseteq MappingPairs
====
